---- MODULE Spec2Model ----
(***************************************************************************)
(* Model of the cellular-automaton service: the generation stepper         *)
(* (api_service.next_generation), the launch request and the background    *)
(* ingestion task (api_service.run_experiment, simulate_and_insert), the   *)
(* status endpoint and the polling loop of the launch form (frontend.py).  *)
(*                                                                         *)
(* Three specifications share the definitions of the stepper:              *)
(*   StepSpec  one call of next_generation, followed cell by cell;         *)
(*   Spec      one run, from the launch request to the end of its task,    *)
(*             with every database operation free to raise;                *)
(*   MultiSpec several runs launched one after another, their tasks        *)
(*             taking turns on the event loop at their awaits.             *)
(***************************************************************************)
EXTENDS Integers, Sequences, FiniteSets, TLC

\* ------------------------------------------------------------------ bounds
\* Largest board side of StepSpec: 3 is the least side with corner, edge and
\* interior cells.
MaxSize == 3
\* Most cells a board of StepSpec has in its rarer state: with 4, every
\* board of side 1 .. 3 is drawn.
MaxMinority == 4
\* Largest board side of a run of Spec.
RunMaxSize == 2
\* Most cells the initial board of a run has in its rarer state.
RunMaxMinority == 1
\* Largest num_steps of a run of Spec.
MaxSteps == 2
\* Runs launched in MultiSpec, and the largest board side and num_steps of
\* each of them.
MaxRuns == 2
MultiMaxSize == 1
MultiMaxSteps == 2

\* ------------------------------------------------------------ numpy arrays
\* A square integer array: its shape and its rows, indexed from 0 as in the
\* source.
Idx(n) == 0 .. (n - 1)

Array(n, cell) == [shape |-> <<n, n>>, data |-> [r \in Idx(n) |-> [c \in Idx(n) |-> cell]]]

Boards(n) == { [shape |-> <<n, n>>, data |-> d] : d \in [Idx(n) -> [Idx(n) -> {0, 1}]] }

Max(a, b) == IF a >= b THEN a ELSE b

Min(a, b) == IF a <= b THEN a ELSE b

\* The indices a basic slice start:stop selects on an axis of length n
\* (a negative bound counts from the end; both bounds are clipped to the axis).
SliceBound(k, n) == IF k < 0 THEN Max(k + n, 0) ELSE Min(k, n)

SliceIdx(start, stop, n) == { k \in Idx(n) : SliceBound(start, n) <= k /\ k < SliceBound(stop, n) }

RECURSIVE SumRow(_, _)
SumRow(row, cols) == IF cols = {} THEN 0 ELSE LET c == CHOOSE x \in cols : TRUE IN row[c] + SumRow(row, cols \ {c})

\* np.sum of the sub-array rows x cols, and of a whole array
RECURSIVE NpSumWindow(_, _, _)
NpSumWindow(a, rows, cols) ==
    IF rows = {} THEN 0
    ELSE LET r == CHOOSE x \in rows : TRUE
         IN SumRow(a.data[r], cols) + NpSumWindow(a, rows \ {r}, cols)

NpSum(a) == NpSumWindow(a, Idx(a.shape[1]), Idx(a.shape[2]))

\* The number of cells of a board in its rarer state
Minority(b) == Min(NpSum(b), b.shape[1] * b.shape[2] - NpSum(b))

\* x in list
In(x, list) == \E k \in DOMAIN list : list[k] = x

\* -------------------------------------------------------- next_generation
\* The frame of one call. Arrays live in a heap of objects, so that the
\* argument and the result are told apart as objects: board and new_board
\* are references into heap.
InputRef == 1

\* The lower bound of the window on one axis, max(0, k-1)
\* (faulty variant: the bound is not clamped)
WindowStartWrapped(k) == k - 1

WindowStart(k) == Max(0, k - 1)

\* board[max(0, i-1):i+2, max(0, j-1):j+2], as index sets
WindowRows(n, i) == SliceIdx(WindowStart(i), i + 2, n)

WindowCols(n, j) == SliceIdx(WindowStart(j), j + 2, n)

\* np.sum(window) - board[i, j]
\* (faulty variant: the cell itself is counted with its neighbours)
total_liveWithSelf(a, i, j) == NpSumWindow(a, WindowRows(a.shape[1], i), WindowCols(a.shape[2], j))

total_live(a, i, j) == NpSumWindow(a, WindowRows(a.shape[1], i), WindowCols(a.shape[2], j)) - a.data[i][j]

\* The S/B rule applied to one cell
\* (faulty variants: the count is stored; the two rule lists are swapped)
NewCellCount(a, i, j, survival_rules, birth_rules) == total_live(a, i, j)

NewCellSwapped(a, i, j, survival_rules, birth_rules) ==
    IF a.data[i][j] = 1
    THEN (IF In(total_live(a, i, j), birth_rules) THEN 1 ELSE 0)
    ELSE (IF In(total_live(a, i, j), survival_rules) THEN 1 ELSE 0)

NewCell(a, i, j, survival_rules, birth_rules) ==
    IF a.data[i][j] = 1
    THEN (IF In(total_live(a, i, j), survival_rules) THEN 1 ELSE 0)
    ELSE (IF In(total_live(a, i, j), birth_rules) THEN 1 ELSE 0)

\* new_board = np.zeros(board.shape, dtype=int): a new object in the heap
\* (faulty variant: new_board is bound to the argument itself)
NewBoardAliased(f) ==
    [f EXCEPT !.new_board = f.board, !.pc = IF f.size > 0 THEN "loop" ELSE "return"]

NewBoard(f) ==
    LET ref == Cardinality(DOMAIN f.heap) + 1
    IN [f EXCEPT !.heap = [o \in DOMAIN f.heap \cup {ref} |->
                             IF o = ref THEN Array(f.heap[f.board].shape[1], 0) ELSE f.heap[o]],
                 !.new_board = ref,
                 !.pc = IF f.size > 0 THEN "loop" ELSE "return"]

\* Entry of the call: the argument is object InputRef of the caller's heap,
\* and size = board.shape[0]
Entry(board, survival_rules, birth_rules) ==
    [heap |-> [o \in {InputRef} |-> board], board |-> InputRef, new_board |-> 0,
     size |-> board.shape[1], i |-> 0, j |-> 0,
     survival_rules |-> survival_rules, birth_rules |-> birth_rules, pc |-> "call"]

\* One pass of the inner loop body: cell (i, j) of new_board is written, and
\* the loop indices advance (j within the row, then i).
LoopBody(f) ==
    LET v == NewCell(f.heap[f.board], f.i, f.j, f.survival_rules, f.birth_rules)
        nj == IF f.j + 1 < f.size THEN f.j + 1 ELSE 0
        ni == IF f.j + 1 < f.size THEN f.i ELSE f.i + 1
    IN [f EXCEPT !.heap[f.new_board].data[f.i][f.j] = v, !.i = ni, !.j = nj,
                 !.pc = IF ni < f.size THEN "loop" ELSE "return"]

RECURSIVE RunLoop(_)
RunLoop(f) == IF f.pc = "loop" THEN RunLoop(LoopBody(f)) ELSE f

\* The whole call, as the run's loop uses it
next_generation(board, survival_rules, birth_rules) ==
    LET f == RunLoop(NewBoard(Entry(board, survival_rules, birth_rules)))
    IN f.heap[f.new_board]

\* ------------------------------------------------- serialized board states
\* str(board.tolist()): the nested list, then its text, one character per
\* element ("[[0, 1], [1, 0]]").
tolist(a) == [r \in 1 .. a.shape[1] |-> [c \in 1 .. a.shape[2] |-> a.data[r - 1][c - 1]]]

Digits == <<"0", "1", "2", "3", "4", "5", "6", "7", "8", "9">>

IntStr(n) == <<Digits[n + 1]>>

RECURSIVE JoinFrom(_, _)
JoinFrom(texts, k) ==
    IF k > Len(texts) THEN <<>>
    ELSE (IF k = 1 THEN <<>> ELSE <<",", " ">>) \o texts[k] \o JoinFrom(texts, k + 1)

ListStr(texts) == <<"[">> \o JoinFrom(texts, 1) \o <<"]">>

BoardStr(rows) == ListStr([r \in DOMAIN rows |-> ListStr([c \in DOMAIN rows[r] |-> IntStr(rows[r][c])])])

\* ast.literal_eval of such a text, read left to right: depth counts the open
\* brackets, a row is collected at depth 2 and appended when it closes.
DigitValue(ch) == CHOOSE n \in 0 .. 9 : Digits[n + 1] = ch

RECURSIVE EvalFrom(_, _, _, _, _)
EvalFrom(text, k, depth, rows, cur) ==
    IF k > Len(text) THEN rows
    ELSE LET ch == text[k]
         IN IF ch = "[" THEN EvalFrom(text, k + 1, depth + 1, rows, <<>>)
            ELSE IF ch = "]" THEN EvalFrom(text, k + 1, depth - 1, IF depth = 2 THEN Append(rows, cur) ELSE rows, <<>>)
            ELSE IF ch \in {",", " "} THEN EvalFrom(text, k + 1, depth, rows, cur)
            ELSE EvalFrom(text, k + 1, depth, rows, Append(cur, DigitValue(ch)))

literal_eval(text) == EvalFrom(text, 1, 0, <<>>, <<>>)

\* ------------------------------------------------------------------- state
VARIABLES ng, ngArg, frontend, request, experiments, generation_trace, task, suspended

\* ng                the frame of the call of next_generation StepSpec follows
\* ngArg             the contents of its argument when the call was made
\* frontend          the launch form: its position and what it shows
\* request           the POST /run_experiment being served
\* experiments       committed rows of raw_data.experiments, by experiment_id
\* generation_trace  committed rows of raw_data.generation_trace, in insertion order
\* task              the background task simulate_and_insert of the run
\* suspended         MultiSpec: the tasks of the other runs, each waiting in
\*                   the event loop (created and not started, or at its
\*                   await asyncio.sleep) or ended, with the request that
\*                   launched it
vars == <<ng, ngArg, frontend, request, experiments, generation_trace, task, suspended>>

stepVars == <<ng, ngArg>>

runVars == <<frontend, request, experiments, generation_trace, task, suspended>>

\* Rule lists a configuration may carry (survival_rules, birth_rules)
RulePairs == { <<<<2, 3>>, <<3>>>>, <<<<>>, <<>>>>, <<<<3, 5, 8>>, <<0, 1, 9>>>> }

\* ------------------------------------------------------------ StepSpec
\* One call of next_generation on any board of side 1 .. MaxSize under any
\* of the rule pairs, one loop pass per step.
NoCall == [pc |-> "none"]

NoBoard == Array(0, 0)

NgNewBoard == /\ ng.pc = "call"
              /\ ng' = NewBoard(ng)
              /\ UNCHANGED <<ngArg, runVars>>

NgLoop == /\ ng.pc = "loop"
          /\ ng' = LoopBody(ng)
          /\ UNCHANGED <<ngArg, runVars>>

NgReturn == /\ ng.pc = "return"
            /\ ng' = [ng EXCEPT !.pc = "done"]
            /\ UNCHANGED <<ngArg, runVars>>

\* ------------------------------------------------------------ the database
\* The status a row of raw_data.experiments has when the INSERT names none
\* (the column default of the schema).
DefaultStatus == "RUNNING"

\* A connection is "None" (never opened), "open", "broken" (lost while a
\* commit was in flight: every later call on it raises) or "closed". A call
\* on an open connection returns or raises. A transaction tx is the list
\* of statements executed since the last commit.
Database == [experiments |-> experiments, generation_trace |-> generation_trace]

\* One statement applied to the tables: the INSERT appends its row, the
\* UPDATE sets the status WHERE experiment_id = %s
\* (faulty variant: the UPDATE has no WHERE clause)
ApplyStmtEveryRow(d, stmt) ==
    IF stmt.op = "INSERT generation_trace"
    THEN [d EXCEPT !.generation_trace = Append(@, stmt.row)]
    ELSE [d EXCEPT !.experiments = [e \in DOMAIN d.experiments |->
                                       [d.experiments[e] EXCEPT !.status = stmt.status]]]

ApplyStmt(d, stmt) ==
    IF stmt.op = "INSERT generation_trace"
    THEN [d EXCEPT !.generation_trace = Append(@, stmt.row)]
    ELSE IF stmt.experiment_id \in DOMAIN d.experiments
         THEN [d EXCEPT !.experiments[stmt.experiment_id].status = stmt.status]
         ELSE d

RECURSIVE ApplyTx(_, _, _)
ApplyTx(d, tx, k) == IF k > Len(tx) THEN d ELSE ApplyTx(ApplyStmt(d, tx[k]), tx, k + 1)

\* conn.commit() returning: the transaction becomes durable
Committed(tx) ==
    LET d == ApplyTx(Database, tx, 1)
    IN /\ experiments' = d.experiments
       /\ generation_trace' = d.generation_trace

\* ------------------------------------------------- frontend.py, the form
\* parse_rules: the text of a rule field to a list of integers, or None.
DigitChars == { Digits[k] : k \in DOMAIN Digits }

\* re.sub(r'[^\d,]', '', rules_str): every character that is neither a digit
\* nor a comma is dropped
re_sub(text) == SelectSeq(text, LAMBDA ch : ch \in DigitChars \cup {","})

\* cleaned_str.split(',')
RECURSIVE SplitFrom(_, _, _)
SplitFrom(text, k, cur) ==
    IF k > Len(text) THEN <<cur>>
    ELSE IF text[k] = "," THEN <<cur>> \o SplitFrom(text, k + 1, <<>>)
    ELSE SplitFrom(text, k + 1, Append(cur, text[k]))

split(text) == SplitFrom(text, 1, <<>>)

\* n.strip()
RECURSIVE strip(_)
strip(text) ==
    IF text # <<>> /\ Head(text) = " " THEN strip(Tail(text))
    ELSE IF text # <<>> /\ text[Len(text)] = " " THEN strip(SubSeq(text, 1, Len(text) - 1))
    ELSE text

\* int(n): the value of a decimal numeral; any other text raises ValueError
IsDecimal(text) == text # <<>> /\ \A k \in DOMAIN text : text[k] \in DigitChars

RECURSIVE IntFrom(_, _, _)
IntFrom(text, k, acc) == IF k > Len(text) THEN acc ELSE IntFrom(text, k + 1, 10 * acc + DigitValue(text[k]))

int(text) == IntFrom(text, 1, 0)

\* The result is a record: is_none tells None from a list.
parse_rules(rules_str) ==
    IF rules_str = <<>> THEN [is_none |-> FALSE, list |-> <<>>]
    ELSE LET cleaned_str == re_sub(rules_str)
             kept == SelectSeq(split(cleaned_str), LAMBDA n : strip(n) # <<>>)
         IN IF \E k \in DOMAIN kept : ~IsDecimal(strip(kept[k]))
            THEN [is_none |-> TRUE, list |-> <<>>]
            ELSE [is_none |-> FALSE, list |-> [k \in DOMAIN kept |-> int(strip(kept[k]))]]

\* What the two rule fields of the form may hold (survival, birth): the
\* defaults "2,3" and "3", both empty, "3,5,8" and "0,1,9", and "2,x3" and "3".
RuleStrs ==
    { << <<"2", ",", "3">>, <<"3">> >>,
      << <<>>, <<>> >>,
      << <<"3", ",", "5", ",", "8">>, <<"0", ",", "1", ",", "9">> >>,
      << <<"2", ",", "x", "3">>, <<"3">> >> }

\* The filled form
Forms == [board_size : 1 .. RunMaxSize, num_steps : 0 .. MaxSteps, rules_str : RuleStrs]

\* The payload of a form whose rule fields parse to the lists s and b
Payload(form, s, b) == [board_size |-> form.board_size, num_steps |-> form.num_steps, rules |-> <<s, b>>]

Configs == { Payload(f, parse_rules(f.rules_str[1]).list, parse_rules(f.rules_str[2]).list) : f \in Forms }

NoRequest == [pc |-> "none"]

NoTask == [pc |-> "none"]

\* The form is submitted: the rule fields are parsed; if either is None an
\* error is shown and the script stops, else POST /run_experiment with the
\* payload
Submit ==
    /\ frontend.pc = "form"
    /\ \E form \in Forms :
          LET survival_rules == parse_rules(form.rules_str[1])
              birth_rules == parse_rules(form.rules_str[2])
              filled == [frontend EXCEPT !.survival_rules_str = form.rules_str[1],
                                         !.birth_rules_str = form.rules_str[2]]
          IN IF survival_rules.is_none \/ birth_rules.is_none
             THEN /\ frontend' = [filled EXCEPT !.pc = "stopped", !.shown = "rules error"]
                  /\ UNCHANGED request
             ELSE /\ frontend' = [filled EXCEPT !.pc = "posted"]
                  /\ request' = [pc |-> "received", experiment_id |-> 0, initial_board |-> NoBoard,
                                 config |-> Payload(form, survival_rules.list, birth_rules.list)]
    /\ UNCHANGED <<stepVars, suspended, experiments, generation_trace, task>>

\* requests.post returns with the reply r: an error is shown, or polling starts
Replied(r) ==
    IF r.status_code # 200
    THEN [frontend EXCEPT !.pc = "stopped", !.shown = "launch error"]
    ELSE [frontend EXCEPT !.pc = "polling", !.exp_id = r.experiment_id, !.shown = "started"]

\* GET /status/{exp_id} answered 200 with the committed status
get_experiment_status(experiment_id) ==
    IF experiment_id \in DOMAIN experiments
    THEN [status_code |-> 200, status |-> experiments[experiment_id].status]
    ELSE [status_code |-> 404, status |-> "None"]

\* One pass of the polling loop with the reply r
PollPass(r) ==
    IF r.status_code = 200
    THEN IF r.status = "COMPLETED" THEN [frontend EXCEPT !.pc = "stopped", !.shown = "COMPLETED"]
         ELSE IF r.status = "FAILED" THEN [frontend EXCEPT !.pc = "stopped", !.shown = "FAILED"]
         ELSE [frontend EXCEPT !.shown = r.status]
    ELSE [frontend EXCEPT !.pc = "stopped", !.shown = "status error"]

Poll ==
    /\ frontend.pc = "polling"
    /\ frontend' = PollPass(get_experiment_status(frontend.exp_id))
    /\ UNCHANGED <<stepVars, suspended, request, experiments, generation_trace, task>>

\* The status endpoint fails on the database and answers 500
PollError ==
    /\ frontend.pc = "polling"
    /\ frontend' = PollPass([status_code |-> 500, status |-> "None"])
    /\ UNCHANGED <<stepVars, suspended, request, experiments, generation_trace, task>>

\* ----------------------------------------------- api_service.run_experiment
\* The board drawn by np.random.choice and the row inserted for it
ExperimentRow(cfg, initial_board) ==
    [board_size |-> cfg.board_size, num_steps |-> cfg.num_steps,
     initial_config |-> BoardStr(tolist(initial_board)), status |-> DefaultStatus]

\* Connection, INSERT ... RETURNING experiment_id and commit all succeed
\* (faulty variant: the row is never committed)
ReqSetupUncommitted ==
    /\ request.pc = "received"
    /\ \E b \in { x \in Boards(request.config.board_size) : Minority(x) <= RunMaxMinority } :
          request' = [request EXCEPT !.pc = "created", !.experiment_id = Cardinality(DOMAIN experiments) + 1,
                                     !.initial_board = b]
    /\ UNCHANGED <<stepVars, suspended, frontend, experiments, generation_trace, task>>

ReqSetup ==
    /\ request.pc = "received"
    /\ \E b \in { x \in Boards(request.config.board_size) : Minority(x) <= RunMaxMinority } :
          LET id == Cardinality(DOMAIN experiments) + 1
          IN /\ experiments' = [e \in DOMAIN experiments \cup {id} |->
                                   IF e = id THEN ExperimentRow(request.config, b) ELSE experiments[e]]
             /\ request' = [request EXCEPT !.pc = "created", !.experiment_id = id, !.initial_board = b]
    /\ UNCHANGED <<stepVars, suspended, frontend, generation_trace, task>>

\* psycopg2.Error during the setup: nothing is committed, or the server
\* committed the row and the connection broke before the reply of the
\* commit; either way the reply is HTTP 500
ReqSetupError ==
    /\ request.pc = "received"
    /\ \/ UNCHANGED experiments
       \/ \E b \in { x \in Boards(request.config.board_size) : Minority(x) <= RunMaxMinority } :
             LET id == Cardinality(DOMAIN experiments) + 1
             IN experiments' = [e \in DOMAIN experiments \cup {id} |->
                                  IF e = id THEN ExperimentRow(request.config, b) ELSE experiments[e]]
    /\ request' = [request EXCEPT !.pc = "error"]
    /\ frontend' = Replied([status_code |-> 500, experiment_id |-> 0])
    /\ UNCHANGED <<stepVars, suspended, generation_trace, task>>

\* asyncio.create_task(simulate_and_insert(...)), then the reply with the id
ReqCreateTask ==
    /\ request.pc = "created"
    /\ task' = [pc |-> "start", experiment_id |-> request.experiment_id,
                num_steps |-> request.config.num_steps, board |-> request.initial_board,
                survival_rules |-> request.config.rules[1], birth_rules |-> request.config.rules[2],
                step |-> 0, live_cells_count |-> 0, conn |-> "None", tx |-> <<>>, exc |-> "None"]
    /\ request' = [request EXCEPT !.pc = "returned"]
    /\ frontend' = Replied([status_code |-> 200, experiment_id |-> request.experiment_id])
    /\ UNCHANGED <<stepVars, suspended, experiments, generation_trace>>

\* ------------------------------------------ api_service.simulate_and_insert
\* The task's frame: its arguments and locals (board, step, conn, the open
\* transaction tx), the exception being handled (exc), and its position pc.
\* Each database call either returns or raises.

\* A call raises: control passes to the except clause
Raise(t, kind, connAfter) == [t EXCEPT !.pc = "except", !.exc = kind, !.conn = connAfter, !.tx = <<>>]

\* cur.execute(stmt) returns
Executed(t, stmt, pcAfter) == [t EXCEPT !.tx = Append(@, stmt), !.pc = pcAfter]

\* The row of generation `step`: the board as text and its live cells
\* (faulty variant: the board is stepped before it is stored)
TraceRowAfterStep(t) ==
    LET b == next_generation(t.board, t.survival_rules, t.birth_rules)
    IN [experiment_id |-> t.experiment_id, generation_num |-> t.step,
        board_state |-> BoardStr(tolist(b)), live_cells_count |-> NpSum(t.board)]

\* (faulty variant: generations are numbered from 1)
TraceRowOneBased(t) ==
    [experiment_id |-> t.experiment_id, generation_num |-> t.step + 1,
     board_state |-> BoardStr(tolist(t.board)), live_cells_count |-> NpSum(t.board)]

TraceRow(t) ==
    [experiment_id |-> t.experiment_id, generation_num |-> t.step,
     board_state |-> BoardStr(tolist(t.board)), live_cells_count |-> NpSum(t.board)]

\* for step in range(num_steps): the loop goes on
\* (faulty variant: the range is one short)
LoopEndsEarly(t) == t.step < t.num_steps - 1

InRange(t) == t.step < t.num_steps

\* board = next_generation(board, survival_rules, birth_rules)
\* (faulty variant: the result is dropped)
SteppedKeepsBoard(t) == [t EXCEPT !.pc = "sleep"]

Stepped(t) == [t EXCEPT !.board = next_generation(t.board, t.survival_rules, t.birth_rules), !.pc = "sleep"]

\* conn = get_db_connection()
TaskConnect ==
    /\ task.pc = "start"
    /\ task' = [task EXCEPT !.conn = "open", !.pc = "select"]
    /\ UNCHANGED <<stepVars, suspended, frontend, request, experiments, generation_trace>>

TaskConnectError ==
    /\ task.pc = "start"
    /\ task' = Raise(task, "OperationalError", "None")
    /\ UNCHANGED <<stepVars, suspended, frontend, request, experiments, generation_trace>>

\* SELECT start_time ...; the row is looked up among the committed ones
TaskSelect ==
    /\ task.pc = "select"
    /\ task.conn = "open"
    /\ task' = IF task.experiment_id \in DOMAIN experiments
               THEN [task EXCEPT !.pc = "loop"]
               ELSE Raise(task, "Exception", "open")
    /\ UNCHANGED <<stepVars, suspended, frontend, request, experiments, generation_trace>>

TaskSelectError ==
    /\ task.pc = "select"
    /\ task' = Raise(task, "psycopg2.Error", task.conn)
    /\ UNCHANGED <<stepVars, suspended, frontend, request, experiments, generation_trace>>

\* The head of the for loop: the next step, or the end of the range
TaskLoop ==
    /\ task.pc = "loop"
    /\ task' = [task EXCEPT !.pc = IF InRange(task) THEN "insert" ELSE "update"]
    /\ UNCHANGED <<stepVars, suspended, frontend, request, experiments, generation_trace>>

\* live_cells_count = int(np.sum(board)); cur.execute(INSERT INTO generation_trace ...)
TaskInsert ==
    /\ task.pc = "insert"
    /\ task.conn = "open"
    /\ task' = Executed([task EXCEPT !.live_cells_count = TraceRow(task).live_cells_count],
                        [op |-> "INSERT generation_trace", row |-> TraceRow(task)], "commit")
    /\ UNCHANGED <<stepVars, suspended, frontend, request, experiments, generation_trace>>

TaskInsertError ==
    /\ task.pc = "insert"
    /\ task' = Raise(task, "psycopg2.Error", task.conn)
    /\ UNCHANGED <<stepVars, suspended, frontend, request, experiments, generation_trace>>

\* conn.commit() of the generation's row
\* (faulty variant: the row is left uncommitted)
TaskCommitDeferred ==
    /\ task.pc = "commit"
    /\ task.conn = "open"
    /\ task' = [task EXCEPT !.pc = "step"]
    /\ UNCHANGED <<stepVars, suspended, frontend, request, experiments, generation_trace>>

TaskCommit ==
    /\ task.pc = "commit"
    /\ task.conn = "open"
    /\ Committed(task.tx)
    /\ task' = [task EXCEPT !.tx = <<>>, !.pc = "step"]
    /\ UNCHANGED <<stepVars, suspended, frontend, request>>

\* conn.commit() raises: the transaction is lost, or the server committed
\* it and the connection broke before the reply
TaskCommitError ==
    /\ task.pc \in {"commit", "commit completed"}
    /\ \/ /\ task' = Raise(task, "psycopg2.Error", task.conn)
          /\ UNCHANGED <<experiments, generation_trace>>
       \/ /\ task.conn = "open"
          /\ Committed(task.tx)
          /\ task' = Raise(task, "psycopg2.Error", "broken")
    /\ UNCHANGED <<stepVars, suspended, frontend, request>>

TaskStep ==
    /\ task.pc = "step"
    /\ task' = Stepped(task)
    /\ UNCHANGED <<stepVars, suspended, frontend, request, experiments, generation_trace>>

\* await asyncio.sleep(step_delay); then the loop variable takes its next value
TaskSleep ==
    /\ task.pc = "sleep"
    /\ task' = [task EXCEPT !.step = @ + 1, !.pc = "loop"]
    /\ UNCHANGED <<stepVars, suspended, frontend, request, experiments, generation_trace>>

\* cur.execute(UPDATE experiments SET ..., status = 'COMPLETED')
TaskUpdate ==
    /\ task.pc = "update"
    /\ task.conn = "open"
    /\ task' = Executed(task, [op |-> "UPDATE experiments", experiment_id |-> task.experiment_id,
                                status |-> "COMPLETED"], "commit completed")
    /\ UNCHANGED <<stepVars, suspended, frontend, request, experiments, generation_trace>>

TaskUpdateError ==
    /\ task.pc = "update"
    /\ task' = Raise(task, "psycopg2.Error", task.conn)
    /\ UNCHANGED <<stepVars, suspended, frontend, request, experiments, generation_trace>>

\* conn.commit() of the final status, the INFO line, and finally: conn.close()
TaskCommitCompleted ==
    /\ task.pc = "commit completed"
    /\ task.conn = "open"
    /\ Committed(task.tx)
    /\ task' = [task EXCEPT !.tx = <<>>, !.conn = "closed", !.pc = "done"]
    /\ UNCHANGED <<stepVars, suspended, frontend, request>>

\* The status the except clause writes
HandlerStmt(t) == [op |-> "UPDATE experiments", experiment_id |-> t.experiment_id, status |-> "FAILED"]

\* finally: if conn: conn.close()
Closed(conn) == IF conn = "None" THEN "None" ELSE "closed"

\* except Exception: without a connection (conn is None) nothing is written;
\* with one, UPDATE ... status = 'FAILED' is executed and committed. Then
\* the finally clause.
TaskExcept ==
    /\ task.pc = "except"
    /\ \/ /\ task.conn = "None"
          /\ UNCHANGED <<experiments, generation_trace>>
       \/ /\ task.conn = "open"
          /\ Committed(<<HandlerStmt(task)>>)
    /\ task' = [task EXCEPT !.conn = Closed(@), !.pc = "done"]
    /\ UNCHANGED <<stepVars, suspended, frontend, request>>

\* The handler's own execute or commit raises: the exception leaves the
\* handler, nothing is written, and only the finally clause runs
TaskExceptError ==
    /\ task.pc = "except"
    /\ task.conn # "None"
    /\ task' = [task EXCEPT !.exc = "psycopg2.Error", !.conn = Closed(@), !.pc = "done"]
    /\ UNCHANGED <<stepVars, suspended, frontend, request, experiments, generation_trace>>

\* ---------------------------------------------------------- specifications
StepInit ==
    /\ ngArg \in UNION { { b \in Boards(n) : Minority(b) <= MaxMinority } : n \in 1 .. MaxSize }
    /\ ng \in { Entry(ngArg, rp[1], rp[2]) : rp \in RulePairs }
    /\ frontend = [pc |-> "off", exp_id |-> 0, shown |-> "None",
                   survival_rules_str |-> <<>>, birth_rules_str |-> <<>>]
    /\ request = NoRequest
    /\ experiments = <<>>
    /\ generation_trace = <<>>
    /\ task = NoTask
    /\ suspended = {}

StepNext == NgNewBoard \/ NgLoop \/ NgReturn

StepSpec == StepInit /\ [][StepNext]_vars

Init ==
    /\ ng = NoCall
    /\ ngArg = NoBoard
    /\ frontend = [pc |-> "form", exp_id |-> 0, shown |-> "form",
                   survival_rules_str |-> <<"2", ",", "3">>, birth_rules_str |-> <<"3">>]
    /\ request = NoRequest
    /\ experiments = <<>>
    /\ generation_trace = <<>>
    /\ task = NoTask
    /\ suspended = {}

TaskNext ==
    \/ TaskConnect \/ TaskConnectError \/ TaskSelect \/ TaskSelectError
    \/ TaskLoop \/ TaskInsert \/ TaskInsertError \/ TaskCommit \/ TaskCommitError
    \/ TaskStep \/ TaskSleep \/ TaskUpdate \/ TaskUpdateError \/ TaskCommitCompleted
    \/ TaskExcept \/ TaskExceptError

Next ==
    \/ Submit \/ Poll \/ PollError
    \/ ReqSetup \/ ReqSetupError \/ ReqCreateTask
    \/ TaskNext

Spec == Init /\ [][Next]_vars

\* ------------------------------------------------------------- MultiSpec
\* Several runs on the one event loop. `task` is the task holding the loop
\* and `request` the request that launched it (or the request being served);
\* a coroutine runs without interruption from one await to the next, so the
\* loop changes hands only when the task is created and not started, at its
\* await asyncio.sleep, or ended, and never while run_experiment, which has
\* no await, is being served. The forms' polling writes nothing and is left
\* out.
MultiForms ==
    { f \in Forms : /\ f.board_size <= MultiMaxSize
                    /\ f.num_steps <= MultiMaxSteps
                    /\ f.rules_str[1] # <<>>
                    /\ ~parse_rules(f.rules_str[1]).is_none
                    /\ ~parse_rules(f.rules_str[2]).is_none
                    /\ re_sub(f.rules_str[1]) = f.rules_str[1] }

AtAwait(t) == t.pc \in {"none", "start", "sleep", "done"}

\* The current task with its request, as it waits in the loop
Current == IF task = NoTask THEN {} ELSE {[task |-> task, request |-> request]}

\* The first form is submitted
MultiSubmit ==
    /\ Submit
    /\ \E f \in MultiForms : /\ request'.config.board_size = f.board_size
                             /\ request'.config.num_steps = f.num_steps
                             /\ frontend'.survival_rules_str = f.rules_str[1]
                             /\ frontend'.birth_rules_str = f.rules_str[2]

\* Another session submits its form while the earlier runs are under way:
\* its POST is served when the loop is free
SubmitNext ==
    /\ frontend.pc \in {"polling", "stopped"}
    /\ request.pc \in {"returned", "error"}
    /\ AtAwait(task)
    /\ Cardinality(suspended \cup Current) < MaxRuns
    /\ Cardinality(DOMAIN experiments) < MaxRuns
    /\ \E form \in MultiForms :
          /\ frontend' = [pc |-> "posted", exp_id |-> 0, shown |-> "form",
                          survival_rules_str |-> form.rules_str[1], birth_rules_str |-> form.rules_str[2]]
          /\ request' = [pc |-> "received", experiment_id |-> 0, initial_board |-> NoBoard,
                         config |-> Payload(form, parse_rules(form.rules_str[1]).list,
                                            parse_rules(form.rules_str[2]).list)]
    /\ suspended' = suspended \cup Current
    /\ task' = NoTask
    /\ UNCHANGED <<stepVars, experiments, generation_trace>>

\* The task holding the loop awaits (or has ended, or has not started) and
\* the loop resumes another task that has not ended
LoopSwitch ==
    /\ request.pc \in {"returned", "error"}
    /\ AtAwait(task)
    /\ \E s \in suspended :
          /\ s.task.pc # "done"
          /\ task' = s.task
          /\ request' = s.request
          /\ suspended' = (suspended \ {s}) \cup Current
    /\ UNCHANGED <<stepVars, frontend, experiments, generation_trace>>

MultiNext ==
    \/ MultiSubmit \/ SubmitNext \/ LoopSwitch
    \/ ReqSetup \/ ReqSetupError \/ ReqCreateTask
    \/ TaskNext

MultiSpec == Init /\ [][MultiNext]_vars

\* The event loop keeps scheduling the request handler and the task, and the
\* form keeps polling; no fault is ever bound to happen.
FairSpec == Spec /\ WF_vars(TaskNext) /\ WF_vars(ReqSetup \/ ReqSetupError \/ ReqCreateTask) /\ WF_vars(Poll)

\* =================================================================== claims
\* ------------------------------------------------- the words of the claims
\* The cells of the 3x3 window centred on (i, j) that lie on an n x n board,
\* the cell itself excluded, and how many of them are alive.
Neighbours(n, i, j) == { p \in ((i - 1) .. (i + 1)) \X ((j - 1) .. (j + 1)) : /\ p[1] \in Idx(n)
                                                                              /\ p[2] \in Idx(n)
                                                                              /\ p # <<i, j>> }

LiveNeighbours(b, i, j) == Cardinality({ p \in Neighbours(b.shape[1], i, j) : b.data[p[1]][p[2]] = 1 })

\* The state the S/B rule gives cell (i, j) of board b
RuleState(b, i, j, survival, birth) ==
    IF \/ b.data[i][j] = 1 /\ In(LiveNeighbours(b, i, j), survival)
       \/ b.data[i][j] = 0 /\ In(LiveNeighbours(b, i, j), birth)
    THEN 1 ELSE 0

\* The cell of new_board the last loop pass wrote
JustWritten(f) == IF f.j > 0 THEN <<f.i, f.j - 1>> ELSE <<f.i - 1, f.size - 1>>

Result(f) == f.heap[f.new_board]

\* The cells the code's window adds up for cell (i, j), the cell itself excluded
Contributing(n, i, j) == (WindowRows(n, i) \X WindowCols(n, j)) \ {<<i, j>>}

IsCorner(n, i, j) == i \in {0, n - 1} /\ j \in {0, n - 1}

IsBorder(n, i, j) == i \in {0, n - 1} \/ j \in {0, n - 1}

ClassCount(n, i, j) == IF IsCorner(n, i, j) THEN 3 ELSE IF IsBorder(n, i, j) THEN 5 ELSE 8

C3_NonMutation ==
    /\ ng.heap[ng.board] = ngArg
    /\ ng.pc \in {"loop", "return", "done"} =>
          /\ ng.new_board # ng.board
          /\ ng.new_board \in DOMAIN ng.heap

\* A call has returned a board that differs from its argument, which is
\* as it was.
C3_Witness ==
    /\ ng.pc = "done"
    /\ Result(ng) # ngArg
    /\ ng.heap[ng.board] = ngArg
    /\ NpSum(ngArg) > 0

\* ---------------------------------------------------------------- the run
Terminal == {"COMPLETED", "FAILED"}

\* The transitions of PENDING -> RUNNING -> {COMPLETED | FAILED}
StatusMachine == { <<"PENDING", "RUNNING">>, <<"RUNNING", "COMPLETED">>, <<"RUNNING", "FAILED">> }

Launched == task.pc # "none"

\* The archived records of run e, in the order they were committed
TraceOf(e) == SelectSeq(generation_trace, LAMBDA r : r.experiment_id = e)

\* The board a record holds, read back from its text
StoredRows(row) == literal_eval(row.board_state)

IsBinaryGrid(rows, n) ==
    /\ Len(rows) = n
    /\ \A r \in 1 .. n : Len(rows[r]) = n /\ \A c \in 1 .. n : rows[r][c] \in {0, 1}

CountOnes(rows) == Cardinality({ p \in (DOMAIN rows) \X (DOMAIN rows) : p[2] \in DOMAIN rows[p[1]] /\ rows[p[1]][p[2]] = 1 })

\* Records k, k+1, ... of trace tr are numbered k-1, k, ... and hold b,
\* next_generation of b, next_generation of that, ...
RECURSIVE HoldsIterates(_, _, _, _, _)
HoldsIterates(tr, k, b, survival, birth) ==
    \/ k > Len(tr)
    \/ /\ tr[k].generation_num = k - 1
       /\ StoredRows(tr[k]) = tolist(b)
       /\ HoldsIterates(tr, k + 1, next_generation(b, survival, birth), survival, birth)

\* C4: the run's current board and every archived board are board_size x
\* board_size, as the initial board, and every cell of them is 0 or 1.
C4_DimsBinary ==
    /\ Launched =>
          LET n == experiments[task.experiment_id].board_size
          IN /\ task.board.shape = <<n, n>>
             /\ task.board.shape = request.initial_board.shape
             /\ IsBinaryGrid(tolist(task.board), n)
    /\ \A k \in DOMAIN generation_trace :
          IsBinaryGrid(StoredRows(generation_trace[k]), experiments[generation_trace[k].experiment_id].board_size)

\* A 2x2 run has archived two generations and stepped twice.
C4_Witness ==
    /\ Launched
    /\ task.board.shape = <<2, 2>>
    /\ task.pc = "sleep"
    /\ task.step = 1
    /\ Len(generation_trace) = 2
    /\ task.board # request.initial_board

\* C5: a new row is not terminal; a status changes only along the state
\* machine and only from a non-terminal value; it becomes COMPLETED only
\* when the task has run all num_steps steps without a fault and all their
\* records are archived; it becomes FAILED only with a fault being handled;
\* a COMPLETED or FAILED status never changes.
C5_StatusStep ==
    \A e \in DOMAIN experiments' :
        IF e \notin DOMAIN experiments
        THEN experiments'[e].status \in {"PENDING", "RUNNING"}
        ELSE experiments'[e].status # experiments[e].status =>
                /\ experiments[e].status \notin Terminal
                /\ <<experiments[e].status, experiments'[e].status>> \in StatusMachine
                /\ Launched /\ task.experiment_id = e
                /\ experiments'[e].status = "COMPLETED" =>
                      /\ task.exc = "None"
                      /\ task.step = experiments[e].num_steps
                      /\ Len(TraceOf(e)) = experiments[e].num_steps
                /\ experiments'[e].status = "FAILED" => task.exc # "None"

C6_FaultMarksFailed ==
    (Launched /\ task.pc = "done" /\ task.exc # "None") => experiments[task.experiment_id].status = "FAILED"

\* C7 as stated: every launched run eventually has a terminal status, and
\* the polling loop of the form eventually stops.
C7_EventuallyTerminal ==
    Launched ~> (Launched /\ experiments[task.experiment_id].status \in Terminal /\ frontend.pc = "stopped")

\* C8: the records of a run are committed in generation order; a record is
\* inserted only when all records before it are committed; next_generation
\* is invoked for generation step+1 only when the record of generation step
\* is committed; at most one record is in an open transaction.
C8_Serialized ==
    Launched =>
        LET tr == TraceOf(task.experiment_id)
        IN /\ \A k \in DOMAIN tr : tr[k].generation_num = k - 1
           /\ task.pc \in {"insert", "commit"} => Len(tr) = task.step
           /\ task.pc \in {"step", "sleep"} => Len(tr) = task.step + 1
           /\ Len(task.tx) <= 1
           /\ \A k \in DOMAIN task.tx : task.tx[k].op = "INSERT generation_trace" => task.tx[k].row.generation_num = Len(tr)

\* The record of generation 1 is committed and the stepper is about to
\* produce generation 2.
C8_Witness ==
    /\ Launched
    /\ task.pc = "step"
    /\ task.step = 1
    /\ Len(TraceOf(task.experiment_id)) = 2

\* C9: the records of a run are numbered 0, 1, 2, ... in the order they
\* were committed, without gap or duplicate, and the record numbered g holds
\* the board obtained by g applications of next_generation to the run's
\* initial board under the run's rule lists.
C9_TraceIsIterate ==
    Launched => HoldsIterates(TraceOf(task.experiment_id), 1, request.initial_board, request.config.rules[1], request.config.rules[2])

\* Two generations are archived and the second differs from the first.
C9_Witness ==
    /\ Launched
    /\ Len(TraceOf(task.experiment_id)) = 2
    /\ TraceOf(task.experiment_id)[2].board_state # TraceOf(task.experiment_id)[1].board_state
    /\ TraceOf(task.experiment_id)[1].board_state = experiments[task.experiment_id].initial_config

\* C10: every archived record's live_cells_count is the number of cells
\* equal to 1 in the board the record stores.
C10_LiveCount ==
    \A k \in DOMAIN generation_trace :
        generation_trace[k].live_cells_count = CountOnes(StoredRows(generation_trace[k]))

\* A record of generation 1 with three live cells, after a generation 0
\* with another count.
C10_Witness ==
    /\ Len(generation_trace) = 2
    /\ generation_trace[2].generation_num = 1
    /\ generation_trace[2].live_cells_count = 3
    /\ generation_trace[1].live_cells_count # 3

\* ------------------------------------------------------------ the launch
\* C13: the step in which run_experiment returns the identifier leaves the
\* run's row committed (a status query with the identifier answers 200), its
\* task created but not started, no generation stepped and none archived;
\* and whenever the setup has failed, the reply is an error and there is no
\* task.
C13_ReturnStep ==
    /\ (request.pc # "returned" /\ request'.pc = "returned") =>
          /\ frontend'.exp_id = request'.experiment_id
          /\ get_experiment_status(request.experiment_id)'.status_code = 200
          /\ task'.pc = "start"
          /\ task'.experiment_id = request'.experiment_id
          /\ task'.step = 0
          /\ task'.board = request'.initial_board
          /\ TraceOf(request.experiment_id)' = <<>>
    /\ request'.pc = "error" =>
          /\ task' = NoTask
          /\ frontend'.shown = "launch error"
          /\ generation_trace' = <<>>

C13_ImmediateReturn == [][C13_ReturnStep]_vars

\* The identifier has been returned, the row is committed and the task has
\* not taken a step.
C13_Witness ==
    /\ request.pc = "returned"
    /\ frontend.pc = "polling"
    /\ get_experiment_status(frontend.exp_id).status = "RUNNING"
    /\ task.pc = "start"
    /\ generation_trace = <<>>

\* ------------------------------------------------------------ fixed points
\* Every live cell of b has its count of live neighbours in survival and no
\* dead cell has its count in birth
Stable(b, survival, birth) ==
    \A p \in Idx(b.shape[1]) \X Idx(b.shape[2]) :
        IF b.data[p[1]][p[2]] = 1
        THEN In(LiveNeighbours(b, p[1], p[2]), survival)
        ELSE ~In(LiveNeighbours(b, p[1], p[2]), birth)

\* C14: the call returns a board equal to its argument whenever the argument
\* is stable under the rule lists; an all-dead board comes back all-dead
\* whenever 0 is not in birth.
C14_FixedPoint ==
    ng.pc \in {"return", "done"} =>
        /\ Stable(ngArg, ng.survival_rules, ng.birth_rules) => Result(ng) = ngArg
        /\ (NpSum(ngArg) = 0 /\ ~In(0, ng.birth_rules)) => Result(ng) = Array(ng.size, 0)

\* A 3x3 call has returned on a stable board with a 2x2 block of live cells
\* and five dead cells.
C14_Witness ==
    /\ ng.pc = "done"
    /\ ng.size = 3
    /\ NpSum(ngArg) = 4
    /\ In(3, ng.survival_rules)
    /\ Stable(ngArg, ng.survival_rules, ng.birth_rules)
    /\ Result(ng) = ngArg

\* -------------------------------------------------------- archived records
\* next_generation applied n times to b
RECURSIVE Iterate(_, _, _, _)
Iterate(b, n, survival, birth) ==
    IF n = 0 THEN b ELSE Iterate(next_generation(b, survival, birth), n - 1, survival, birth)

\* C15: a COMPLETED run of num_steps = S has exactly S records, numbered
\* 0 .. S-1 (none when S = 0), while its board has been stepped S times, the
\* last result being archived nowhere; a FAILED run has records 0 .. k-1 for
\* some k <= S.
C15_RecordCount ==
    Launched =>
        LET e == task.experiment_id
            tr == TraceOf(e)
            S == experiments[e].num_steps
        IN /\ experiments[e].status = "COMPLETED" =>
                 /\ Len(tr) = S
                 /\ \A k \in 1 .. S : tr[k].generation_num = k - 1
                 /\ task.step = S
                 /\ task.board = Iterate(request.initial_board, S, task.survival_rules, task.birth_rules)
           /\ experiments[e].status = "FAILED" =>
                 /\ Len(tr) <= S
                 /\ \A k \in DOMAIN tr : tr[k].generation_num = k - 1

\* A run of two steps is COMPLETED with records 0 and 1, and its board, the
\* result of the second step, is in neither.
C15_Witness ==
    /\ Launched
    /\ experiments[task.experiment_id].status = "COMPLETED"
    /\ experiments[task.experiment_id].num_steps = 2
    /\ Len(TraceOf(task.experiment_id)) = 2
    /\ \A k \in 1 .. 2 : StoredRows(TraceOf(task.experiment_id)[k]) # tolist(task.board)

\* ---------------------------------------------------------- the rule fields
\* A rule text with a character that is neither a digit nor a comma
Malformed(text) == \E k \in DOMAIN text : text[k] \notin DigitChars \cup {","}

\* C12 as stated: when the submitted form has a malformed rule field, the
\* form shows the rules error and stops, no launch request is sent, and no
\* task is created.
C12_MalformedRejected ==
    (frontend.pc \notin {"form", "off"}
        /\ (Malformed(frontend.survival_rules_str) \/ Malformed(frontend.birth_rules_str))) =>
       /\ frontend.shown = "rules error"
       /\ request = NoRequest
       /\ task = NoTask

\* ------------------------------------------------------- concurrent runs
\* The runs launched so far: the one holding the loop and the suspended ones
Runs == suspended \cup Current

\* Run r is where a run alone would be: its task carries the rule lists and
\* num_steps of its own request, its board is its own initial board stepped
\* as many times as the task has stepped, its records are the iterates of
\* that board under those lists, and its status is the outcome of its own
\* task.
RunAlone(r) ==
    LET t == r.task
        e == t.experiment_id
        tr == TraceOf(e)
        survival == r.request.config.rules[1]
        birth == r.request.config.rules[2]
        S == r.request.config.num_steps
        stepped == IF t.pc = "sleep" THEN t.step + 1 ELSE t.step
    IN /\ r.request.experiment_id = e
       /\ t.survival_rules = survival /\ t.birth_rules = birth /\ t.num_steps = S
       /\ experiments[e].initial_config = BoardStr(tolist(r.request.initial_board))
       /\ experiments[e].num_steps = S
       /\ t.board = Iterate(r.request.initial_board, stepped, survival, birth)
       /\ HoldsIterates(tr, 1, r.request.initial_board, survival, birth)
       /\ Len(tr) \in {t.step, t.step + 1} /\ Len(tr) <= S
       /\ experiments[e].status = "COMPLETED" => (Len(tr) = S /\ t.step = S)
       /\ experiments[e].status = "FAILED" => t.exc # "None"
       /\ (t.pc = "done" /\ t.exc = "None") => experiments[e].status = "COMPLETED"

\* A step writes rows of the run holding the loop only: the stored rows are
\* kept in their order, a new record belongs to the task that holds the
\* loop, a status that changes is that task's, and a run that stays
\* suspended keeps its task, its records and its row.
OwnRowsOnly ==
    /\ Len(generation_trace') >= Len(generation_trace)
    /\ SubSeq(generation_trace', 1, Len(generation_trace)) = generation_trace
    /\ \A k \in DOMAIN generation_trace' :
          k > Len(generation_trace) => (task # NoTask /\ generation_trace'[k].experiment_id = task.experiment_id)
    /\ \A e \in DOMAIN experiments :
          /\ e \in DOMAIN experiments'
          /\ experiments'[e] # experiments[e] => (task # NoTask /\ e = task.experiment_id)
    /\ \A s \in suspended \cap suspended' :
          /\ TraceOf(s.task.experiment_id)' = TraceOf(s.task.experiment_id)
          /\ experiments'[s.task.experiment_id] = experiments[s.task.experiment_id]

\* C11: with the tasks of several runs taking turns in any order at their
\* awaits, every step reads and writes only the board, rule lists, records
\* and status of the run whose task holds the loop, and every run is, in
\* every state, where it would be had it run alone.
C11_RunsAlone == \A r \in Runs : RunAlone(r)

C11_Independent == []C11_RunsAlone /\ [][OwnRowsOnly]_vars

\* Two runs under different rule lists have both ended COMPLETED with two
\* records each, committed in the order run 1, run 2, run 1, run 2.
C11_Witness ==
    /\ Cardinality(Runs) = 2
    /\ \A r \in Runs : r.task.pc = "done" /\ experiments[r.task.experiment_id].status = "COMPLETED"
    /\ \E r, q \in Runs : r.task.survival_rules # q.task.survival_rules
    /\ Len(generation_trace) = 4
    /\ \A k \in 1 .. 4 : generation_trace[k].experiment_id = 2 - (k % 2)
    /\ TraceOf(1) # [k \in 1 .. 2 |-> [TraceOf(2)[k] EXCEPT !.experiment_id = 1]]

====
